---- MODULE Spec2Model ----
(***************************************************************************)
(* The payments page (Page), its category-count effects and filter         *)
(* handler, the payment table it hosts, and the events page (EventsPage)   *)
(* pagination of the nodegaze dashboard.                                   *)
(***************************************************************************)
EXTENDS Integers, Sequences, FiniteSets, TLC

(* ---------------------------- bounds ----------------------------------- *)
MaxTotal == 1        \* largest pagination.total_items a response carries
MaxItemsLen == 1     \* longest data.items list a count response carries
MaxValue == 1        \* largest numeric threshold a filter carries
MaxDay == 2          \* calendar days a date-range bound ranges over
MaxPaymentId == 2    \* payment records are identified by 1..MaxPaymentId
MaxFetches == 3      \* table fetches issued in one run
MaxEndpoints == 11   \* longest endpointsData list
MaxItemsPerPage == 2 \* largest itemsPerPage
MaxTablePage == 2    \* pages of the payment table
MaxDetailFetches == 3 \* payment-details fetches issued in one run

(* ------------------------- JavaScript values --------------------------- *)
Undefined == [t |-> "undefined"]
NaN == [t |-> "NaN"]
NonNumeric == [t |-> "string"]             \* a string Number() maps to NaN
Num(n) == [t |-> "number", n |-> n]
Absent == "undefined"                      \* an optional string field left out
NoDate == 0                                \* an optional date field left out

\* a ?? b
Nullish(a, b) == IF a = Undefined THEN b ELSE a

\* Number(x) || 0, as an integer
NumberOrZero(x) == IF x.t = "number" THEN x.n ELSE 0

(* --------------------------- PaymentFilters ---------------------------- *)
PaymentStates == {"settled", "failed", "pending"}
Operators == {"gte", "lte", "eq"}
FilterValues == {Undefined, NaN} \cup {Num(n) : n \in -1..MaxValue}
FilterDates == {NoDate} \cup 1..MaxDay

PaymentFilters ==
  [paymentState : {Absent} \cup PaymentStates,
   operator : {Absent} \cup Operators,
   value : FilterValues,
   from : FilterDates,
   to : FilterDates]

\* {} : the initial value of filters
EmptyFilters ==
  [paymentState |-> Absent, operator |-> Absent, value |-> Undefined,
   from |-> NoDate, to |-> NoDate]

\* criteria that set the settlement state and nothing else
StateFilters ==
  {c \in PaymentFilters : c.operator = Absent /\ c.value = Undefined
                          /\ c.from = NoDate /\ c.to = NoDate}

(* --------------------------- count responses --------------------------- *)
paymentTypes == {"all", "incoming", "outgoing"}

TotalItems == {Undefined, NonNumeric} \cup {Num(n) : n \in -1..MaxTotal}
ItemsLength == {Undefined} \cup {Num(n) : n \in 0..MaxItemsLen}

\* what a count request can come back with: the fetch rejects, res.json()
\* rejects, or a body with optional pagination.total_items and data.items
CountResponses ==
  {[kind |-> "reject"], [kind |-> "badjson"]}
    \cup {[kind |-> "body", total_items |-> t, items |-> i] :
            t \in TotalItems, i \in ItemsLength}

NoResponse == [kind |-> "none"]

PaymentLists == {<<>>} \cup {<<i>> : i \in 1..MaxPaymentId}

VARIABLES
  selectedState, payments, incomingCount, outgoingCount, allCount, filters,
  countReq,      \* paymentTypes -> "idle" | "pending" | "done"
  served,        \* paymentTypes -> the response its count request received
  applied,       \* the argument of the latest handleApplyFilters call
  issued         \* the count requests sent so far, in order

VARIABLES
  requests,      \* the table's fetches, by token: its response and progress
  arrivals,      \* tokens in the order their responses arrived
  status,        \* "Idle" | "Loading" | "Ready" | "Error"
  tablePage      \* the page of the table that is shown

VARIABLES
  selectedType   \* the direction tab selected in app/payments/page.tsx

VARIABLES
  id,            \* the payment id in the route of the details page
  paymentData,
  detailFetches  \* the details fetches: id, response and progress

VARIABLES
  endpointsData, \* the length of the endpoints list
  itemsPerPage,
  currentPage, selectedEvent, isNotificationSettingsOpen, isCategoriesOpen

filterVars == <<selectedState, filters, applied>>
countVars == <<incomingCount, outgoingCount, allCount, countReq, served,
              issued>>
pageVars == <<filterVars, payments, countVars>>
tableVars == <<requests, arrivals, status, tablePage>>
tabVars == <<selectedType>>
detailsVars == <<id, paymentData, detailFetches>>
eventsVars == <<endpointsData, itemsPerPage, currentPage, selectedEvent,
                isNotificationSettingsOpen, isCategoriesOpen>>
vars == <<pageVars, tableVars, tabVars, detailsVars, eventsVars>>

NoCall == [t |-> "none"]

PageInit ==
  /\ selectedState = "all"
  /\ payments = <<>>
  /\ incomingCount = 0
  /\ outgoingCount = 0
  /\ allCount = 0
  /\ filters = EmptyFilters
  /\ countReq = [k \in paymentTypes |-> "idle"]
  /\ served = [k \in paymentTypes |-> NoResponse]
  /\ applied = NoCall
  /\ issued = <<>>

\* the query strings of the three count requests
incomingCountQuery ==
  {<<"payment_types", "incoming">>, <<"per_page", "1">>, <<"page", "1">>}

\* the request for every payment names every type
allCountQuery_wildcard ==
  {<<"payment_types", "all">>, <<"per_page", "1">>, <<"page", "1">>}

allCountQuery == {<<"per_page", "1">>, <<"page", "1">>}

outgoingCountQuery ==
  {<<"payment_types", "outgoing">>, <<"per_page", "1">>, <<"page", "1">>}

\* the requests of the three effects, in the order the effects run
countQueries ==
  << [key |-> "incoming", query |-> incomingCountQuery],
     [key |-> "all", query |-> allCountQuery],
     [key |-> "outgoing", query |-> outgoingCountQuery] >>

\* the three mount effects: each starts its count request
Mount ==
  /\ \A k \in paymentTypes : countReq[k] = "idle"
  /\ countReq' = [k \in paymentTypes |-> "pending"]
  /\ issued' = issued \o countQueries
  /\ UNCHANGED <<incomingCount, outgoingCount, allCount, served>>
  /\ UNCHANGED <<filterVars, payments, tableVars, tabVars, detailsVars,
                 eventsVars>>

\* no fallback: a missing total counts as 0
countOf_nofallback(r) ==
  IF r.kind = "body"
    THEN NumberOrZero(Nullish(r.total_items, Num(0)))
    ELSE 0

\* || in place of ??: a total of 0 gives way to the length of the list
countOf_or(r) ==
  IF r.kind = "body"
    THEN NumberOrZero(
           IF r.total_items \in {Undefined, Num(0)}
             THEN Nullish(r.items, Num(0))
             ELSE r.total_items)
    ELSE 0

\* the value a count function hands to its setter
countOf(r) ==
  IF r.kind = "body"
    THEN NumberOrZero(Nullish(Nullish(r.total_items, r.items), Num(0)))
    ELSE 0

\* the response r to the count request of category k arrives
Settle(k, r) ==
  /\ countReq[k] = "pending"
  /\ countReq' = [countReq EXCEPT ![k] = "done"]
  /\ served' = [served EXCEPT ![k] = r]
  /\ UNCHANGED issued
  /\ UNCHANGED <<filterVars, payments, tableVars, tabVars, detailsVars,
                 eventsVars>>

\* a shared failure path: a failed request zeroes every count
fetchIncomingCount_shared(r) ==
  /\ Settle("incoming", r)
  /\ incomingCount' = countOf(r)
  /\ IF r.kind = "body"
       THEN UNCHANGED <<outgoingCount, allCount>>
       ELSE outgoingCount' = 0 /\ allCount' = 0

\* no catch: a rejection leaves fetchIncomingCount by an exception
fetchIncomingCount_nocatch(r) ==
  IF r.kind = "body"
    THEN /\ Settle("incoming", r)
         /\ incomingCount' = countOf(r)
         /\ UNCHANGED <<outgoingCount, allCount>>
    ELSE /\ countReq["incoming"] = "pending"
         /\ countReq' = [countReq EXCEPT !["incoming"] = "crashed"]
         /\ UNCHANGED <<incomingCount, outgoingCount, allCount, served,
                        issued>>
         /\ UNCHANGED <<filterVars, payments, tableVars, tabVars,
                        detailsVars, eventsVars>>

fetchIncomingCount(r) ==
  /\ Settle("incoming", r)
  /\ incomingCount' = countOf(r)
  /\ UNCHANGED <<outgoingCount, allCount>>

fetchAllCount(r) ==
  /\ Settle("all", r)
  /\ allCount' = countOf(r)
  /\ UNCHANGED <<incomingCount, outgoingCount>>

\* the outgoing total is handed to the setter of the incoming count
fetchOutgoingCount_paste(r) ==
  /\ Settle("outgoing", r)
  /\ incomingCount' = countOf(r)
  /\ UNCHANGED <<outgoingCount, allCount>>

fetchOutgoingCount(r) ==
  /\ Settle("outgoing", r)
  /\ outgoingCount' = countOf(r)
  /\ UNCHANGED <<incomingCount, allCount>>

\* applying a filter also refreshes the counts
handleApplyFilters_refresh(c) ==
  /\ filters' = c
  /\ selectedState' = IF c.paymentState # Absent
                        THEN c.paymentState
                        ELSE selectedState
  /\ applied' = c
  /\ incomingCount' = 0 /\ outgoingCount' = 0 /\ allCount' = 0
  /\ countReq' = [k \in paymentTypes |-> "pending"]
  /\ issued' = issued \o countQueries
  /\ UNCHANGED <<served, payments, tabVars, detailsVars, eventsVars>>

\* a field the new criteria leave out keeps its previous value
handleApplyFilters_merge(c) ==
  /\ filters' =
       [paymentState |-> IF c.paymentState # Absent
                           THEN c.paymentState ELSE filters.paymentState,
        operator |-> IF c.operator # Absent
                       THEN c.operator ELSE filters.operator,
        value |-> IF c.value # Undefined THEN c.value ELSE filters.value,
        from |-> IF c.from # NoDate THEN c.from ELSE filters.from,
        to |-> IF c.to # NoDate THEN c.to ELSE filters.to]
  /\ selectedState' = IF c.paymentState # Absent
                        THEN c.paymentState
                        ELSE selectedState
  /\ applied' = c
  /\ UNCHANGED <<payments, countVars, tabVars, detailsVars, eventsVars>>

\* the criteria are stored and selectedState is left as it was
handleApplyFilters_nosync(c) ==
  /\ filters' = c
  /\ selectedState' = selectedState
  /\ applied' = c
  /\ UNCHANGED <<payments, countVars, tabVars, detailsVars, eventsVars>>

handleApplyFilters(c) ==
  /\ filters' = c
  /\ selectedState' = IF c.paymentState # Absent
                        THEN c.paymentState
                        ELSE selectedState
  /\ applied' = c
  /\ UNCHANGED <<payments, countVars, tabVars, detailsVars, eventsVars>>

\* the handler runs while the table is at rest
applyFilters(c) ==
  /\ handleApplyFilters(c)
  /\ UNCHANGED tableVars

\* the setter handed to the table
setPayments(list) ==
  /\ payments' = list
  /\ UNCHANGED <<filterVars, countVars>>

\* the table stores a list it loaded
tableSetsPayments(list) ==
  /\ setPayments(list)
  /\ UNCHANGED <<tableVars, tabVars, detailsVars, eventsVars>>

\* the number a category button shows
Badge(key) ==
  IF key = "incoming" THEN incomingCount
  ELSE IF key = "all" THEN allCount
  ELSE IF key = "outgoing" THEN outgoingCount
  ELSE 0

\* the number a category button shows in app/payments/page.tsx, whose Page
\* keeps the same payments state and shows no fetched counts
LengthBadge(key) == IF key = "all" THEN Len(payments) ELSE 0

(* ------------------------- the payment table --------------------------- *)
\* what a table fetch can come back with
TableResponses ==
  {[ok |-> FALSE, records |-> <<>>]}
    \cup {[ok |-> TRUE, records |-> l] : l \in PaymentLists}

TableInit ==
  /\ requests = <<>>
  /\ arrivals = <<>>
  /\ status = "Idle"
  /\ tablePage = 1

\* a request is sent, tagged with the next sequence number; r is the
\* response the server will give it
issue(r) ==
  /\ Len(requests) < MaxFetches
  /\ requests' = Append(requests, [response |-> r, pending |-> TRUE])
  /\ status' = "Loading"
  /\ UNCHANGED arrivals

\* fetch(direction, criteria, page, pageSize) for the page that is shown
fetch(r) ==
  /\ issue(r)
  /\ UNCHANGED <<tablePage, pageVars, tabVars, detailsVars, eventsVars>>

\* the table shows another page and fetches it
goToTablePage(n, r) ==
  /\ n \in 1..MaxTablePage
  /\ tablePage' = n
  /\ issue(r)
  /\ UNCHANGED <<pageVars, tabVars, detailsVars, eventsVars>>

\* applyFilter(criteria): the page's handler runs, and the table, whose
\* filters and selectedState props changed, goes back to page 1 and fetches
applyFilter(c, r) ==
  /\ handleApplyFilters(c)
  /\ tablePage' = 1
  /\ issue(r)

\* a click on a category button of the page with the count badges
clickPaymentType(key) ==
  /\ key \in paymentTypes
  /\ UNCHANGED vars

paymentTypeKeys == {"all", "outgoing", "incoming", "forwarded"}

\* a click on a category button of app/payments/page.tsx; the table is
\* handed payments and setPayments only, so nothing of it changes
setSelectedType(key) ==
  /\ key \in paymentTypeKeys
  /\ selectedType' = key
  /\ UNCHANGED <<pageVars, tableVars, detailsVars, eventsVars>>

\* no token check: every response is taken
isLatest_any(token) == TRUE

\* does the response to request token change the visible state
isLatest(token) == token = Len(requests)

\* the response to request token arrives
resolve(token) ==
  /\ token \in 1..Len(requests)
  /\ requests[token].pending
  /\ requests' = [requests EXCEPT ![token].pending = FALSE]
  /\ arrivals' = Append(arrivals, token)
  /\ IF isLatest(token)
       THEN IF requests[token].response.ok
              THEN /\ setPayments(requests[token].response.records)
                   /\ status' = "Ready"
              ELSE /\ status' = "Error"
                   /\ UNCHANGED pageVars
       ELSE UNCHANGED <<status, pageVars>>
  /\ UNCHANGED <<tablePage, tabVars, detailsVars, eventsVars>>

(* ----------------------- the payment details page ---------------------- *)
NullData == [loaded |-> FALSE]

\* what a details request can come back with: the fetch rejects, res.json()
\* rejects, the body has no data member, or the body holds the payment
DetailResponses == {"reject", "badjson", "nodata", "data"}

DetailsInit ==
  /\ id \in 1..MaxPaymentId
  /\ paymentData = NullData
  /\ detailFetches = <<>>

\* the effect of the details page runs: at mount for the id of the route,
\* later for the id the route changed to
detailsEffect(i, r) ==
  /\ Len(detailFetches) < MaxDetailFetches
  /\ i \in 1..MaxPaymentId
  /\ IF detailFetches = <<>> THEN i = id ELSE i # id
  /\ id' = i
  /\ detailFetches' =
       Append(detailFetches,
              [id |-> i, response |-> r, pending |-> TRUE, threw |-> FALSE])
  /\ UNCHANGED <<paymentData, pageVars, tableVars, tabVars, eventsVars>>

\* no try and catch: a failed load leaves fetchPaymentData by an exception
fetchPaymentData_nocatch(t) ==
  /\ t \in 1..Len(detailFetches)
  /\ detailFetches[t].pending
  /\ detailFetches' =
       [detailFetches EXCEPT ![t].pending = FALSE,
                             ![t].threw = detailFetches[t].response # "data"]
  /\ paymentData' = IF detailFetches[t].response = "data"
                      THEN [loaded |-> TRUE, payment |-> detailFetches[t].id]
                      ELSE paymentData
  /\ UNCHANGED <<id, pageVars, tableVars, tabVars, eventsVars>>

\* payment?.state in place of payment.state: a body with no data member
\* is shown as a payment of placeholders
fetchPaymentData_optional(t) ==
  /\ t \in 1..Len(detailFetches)
  /\ detailFetches[t].pending
  /\ detailFetches' = [detailFetches EXCEPT ![t].pending = FALSE]
  /\ paymentData' =
       IF detailFetches[t].response = "data"
         THEN [loaded |-> TRUE, payment |-> detailFetches[t].id]
         ELSE IF detailFetches[t].response = "nodata"
           THEN [loaded |-> TRUE, payment |-> 0]
           ELSE paymentData
  /\ UNCHANGED <<id, pageVars, tableVars, tabVars, eventsVars>>

\* the rest of fetchPaymentData once the response of fetch t is there: the
\* payment is stored, or the catch block takes the failure and nothing is
\* thrown on
fetchPaymentData(t) ==
  /\ t \in 1..Len(detailFetches)
  /\ detailFetches[t].pending
  /\ detailFetches' = [detailFetches EXCEPT ![t].pending = FALSE]
  /\ paymentData' = IF detailFetches[t].response = "data"
                      THEN [loaded |-> TRUE, payment |-> detailFetches[t].id]
                      ELSE paymentData
  /\ UNCHANGED <<id, pageVars, tableVars, tabVars, eventsVars>>

\* what the details page shows: placeholders until a payment is loaded
detailsStatus == IF paymentData = NullData THEN "Loading" ELSE "Ready"

(* --------------------------- the events page --------------------------- *)
Max(a, b) == IF a >= b THEN a ELSE b
Min(a, b) == IF a <= b THEN a ELSE b

\* Math.ceil(a / b) for a >= 0, b >= 1
Ceil(a, b) == (a + b - 1) \div b

EventsInit ==
  /\ endpointsData \in 0..MaxEndpoints
  /\ itemsPerPage \in 1..MaxItemsPerPage
  /\ currentPage = 1
  /\ selectedEvent = ""
  /\ isNotificationSettingsOpen = TRUE
  /\ isCategoriesOpen = FALSE

totalPages == Ceil(endpointsData, itemsPerPage)

\* the endpoints list, each entry named by its id
endpointIds == [i \in 1..endpointsData |-> i]

\* list.slice(start, end) for start, end >= 0
slice(list, start, end) ==
  SubSeq(list, Min(start, Len(list)) + 1, Min(end, Len(list)))

\* the first row of a page is the first row of the page after it
startIndex_next == currentPage * itemsPerPage

startIndex == (currentPage - 1) * itemsPerPage

\* the rows of the table
currentData == slice(endpointIds, startIndex, startIndex + itemsPerPage)

maxVisible == 5

\* the window is not cut at the last page
getPaginationNumbers_uncut ==
  LET start == Max(1, currentPage - (maxVisible \div 2))
      end == start + maxVisible - 1
  IN  [i \in 1..(end - start + 1) |-> start + i - 1]

\* the start is not moved back when the window is cut at the last page
getPaginationNumbers_noshift ==
  LET start == Max(1, currentPage - (maxVisible \div 2))
      end == Min(totalPages, start + maxVisible - 1)
  IN  [i \in 1..Max(0, end - start + 1) |-> start + i - 1]

\* the window starts one page before the current page
getPaginationNumbers_offcentre ==
  LET start0 == Max(1, currentPage - 1)
      end == Min(totalPages, start0 + maxVisible - 1)
      start == IF end - start0 + 1 < maxVisible
                 THEN Max(1, end - maxVisible + 1)
                 ELSE start0
  IN  [i \in 1..Max(0, end - start + 1) |-> start + i - 1]

\* the window does not follow the current page
getPaginationNumbers_first ==
  LET start == 1
      end == Min(totalPages, start + maxVisible - 1)
  IN  [i \in 1..Max(0, end - start + 1) |-> start + i - 1]

\* the page numbers getPaginationNumbers returns, as the run start..end
getPaginationNumbers ==
  LET start0 == Max(1, currentPage - (maxVisible \div 2))
      end == Min(totalPages, start0 + maxVisible - 1)
      start == IF end - start0 + 1 < maxVisible
                 THEN Max(1, end - maxVisible + 1)
                 ELSE start0
  IN  [i \in 1..Max(0, end - start + 1) |-> start + i - 1]

\* n.toString() for n >= 0, as its decimal digits
RECURSIVE toString(_)
toString(n) == IF n < 10 THEN <<n>> ELSE toString(n \div 10) \o <<n % 10>>

\* parseInt(s) for a non-empty string of decimal digits
RECURSIVE parseInt(_)
parseInt(s) ==
  IF Len(s) = 1 THEN s[1]
  ELSE 10 * parseInt(SubSeq(s, 1, Len(s) - 1)) + s[Len(s)]

\* a page change also clears the selected event
setCurrentPage_reset(n) ==
  /\ currentPage' = n
  /\ selectedEvent' = ""
  /\ UNCHANGED <<endpointsData, itemsPerPage,
                 isNotificationSettingsOpen, isCategoriesOpen>>
  /\ UNCHANGED <<pageVars, tableVars, tabVars, detailsVars>>

setCurrentPage(n) ==
  /\ currentPage' = n
  /\ UNCHANGED <<endpointsData, itemsPerPage, selectedEvent,
                 isNotificationSettingsOpen, isCategoriesOpen>>
  /\ UNCHANGED <<pageVars, tableVars, tabVars, detailsVars>>

\* a click on one of the page buttons
clickPage(i) ==
  /\ i \in 1..Len(getPaginationNumbers)
  /\ setCurrentPage(getPaginationNumbers[i])

\* the options of the go-to-page select
goToOptions == {toString(i + 1) : i \in 0..(totalPages - 1)}

\* a choice in the go-to-page select
goToPage(value) ==
  /\ value \in goToOptions
  /\ setCurrentPage(parseInt(value))

setSelectedEvent(value) ==
  /\ isNotificationSettingsOpen
  /\ selectedEvent' = value
  /\ UNCHANGED <<endpointsData, itemsPerPage, currentPage,
                 isNotificationSettingsOpen, isCategoriesOpen>>
  /\ UNCHANGED <<pageVars, tableVars, tabVars, detailsVars>>

toggleNotificationSettings ==
  /\ isNotificationSettingsOpen' = ~isNotificationSettingsOpen
  /\ UNCHANGED <<endpointsData, itemsPerPage, currentPage, selectedEvent,
                 isCategoriesOpen>>
  /\ UNCHANGED <<pageVars, tableVars, tabVars, detailsVars>>

toggleCategories ==
  /\ isCategoriesOpen' = ~isCategoriesOpen
  /\ UNCHANGED <<endpointsData, itemsPerPage, currentPage, selectedEvent,
                 isNotificationSettingsOpen>>
  /\ UNCHANGED <<pageVars, tableVars, tabVars, detailsVars>>

(* --------------------------- specifications ---------------------------- *)
\* the events page at rest while the payments page runs, and the reverse
EventsIdle ==
  /\ endpointsData = 0
  /\ itemsPerPage = 1
  /\ currentPage = 1
  /\ selectedEvent = ""
  /\ isNotificationSettingsOpen = TRUE
  /\ isCategoriesOpen = FALSE

\* the details page before its effect has run
DetailsIdle ==
  /\ id = 1
  /\ paymentData = NullData
  /\ detailFetches = <<>>

Init ==
  /\ PageInit /\ TableInit /\ EventsIdle /\ DetailsIdle
  /\ selectedType = "all"

Next ==
  \/ Mount
  \/ \E r \in CountResponses : fetchIncomingCount(r)
  \/ \E r \in CountResponses : fetchAllCount(r)
  \/ \E r \in CountResponses : fetchOutgoingCount(r)
  \/ \E c \in StateFilters : applyFilters(c)
  \/ \E l \in PaymentLists : tableSetsPayments(l)
  \/ \E k \in paymentTypes : clickPaymentType(k)

Spec == Init /\ [][Next]_vars

\* the filter handler over every criteria value
NextFilters == \E c \in PaymentFilters : applyFilters(c)

SpecFilters == Init /\ [][NextFilters]_vars

\* the table's fetch cycles
NextTable ==
  \/ \E r \in TableResponses : fetch(r)
  \/ \E t \in 1..MaxFetches : resolve(t)

SpecTable == Init /\ [][NextTable]_vars

\* the events that start a fetch cycle of the table: page changes, filter
\* applications and tab clicks, with responses that carry no records
NavResponses == {r \in TableResponses : r.records = <<>>}

NextNav ==
  \/ \E n \in 1..MaxTablePage, r \in NavResponses : goToTablePage(n, r)
  \/ \E c \in StateFilters, r \in NavResponses : applyFilter(c, r)
  \/ \E k \in paymentTypeKeys : setSelectedType(k)
  \/ \E t \in 1..MaxFetches : resolve(t)

SpecNav == Init /\ [][NextNav]_vars

\* the events page
InitEvents ==
  /\ PageInit /\ TableInit /\ EventsInit /\ DetailsIdle
  /\ selectedType = "all"

NextEvents ==
  \/ \E i \in 1..maxVisible : clickPage(i)
  \/ \E v \in {toString(n) : n \in 1..MaxEndpoints} : goToPage(v)
  \/ \E v \in {"webhook", "discord"} : setSelectedEvent(v)
  \/ toggleNotificationSettings
  \/ toggleCategories

SpecEvents == InitEvents /\ [][NextEvents]_vars

\* the payment details page
InitDetails ==
  /\ PageInit /\ TableInit /\ EventsIdle /\ DetailsInit
  /\ selectedType = "all"

NextDetails ==
  \/ \E i \in 1..MaxPaymentId, r \in DetailResponses : detailsEffect(i, r)
  \/ \E t \in 1..MaxDetailFetches : fetchPaymentData(t)

SpecDetails == InitDetails /\ [][NextDetails]_vars

\* the count requests alone; React runs the mount effects, and every
\* request is taken to come back
NextCounts ==
  \/ Mount
  \/ \E r \in CountResponses : fetchIncomingCount(r)
  \/ \E r \in CountResponses : fetchAllCount(r)
  \/ \E r \in CountResponses : fetchOutgoingCount(r)

SpecCounts ==
  /\ Init /\ [][NextCounts]_vars
  /\ WF_vars(Mount)
  /\ WF_vars(\E r \in CountResponses : fetchIncomingCount(r))
  /\ WF_vars(\E r \in CountResponses : fetchAllCount(r))
  /\ WF_vars(\E r \in CountResponses : fetchOutgoingCount(r))

(* ----------------------------- properties ------------------------------ *)
AllArrived == \A t \in 1..Len(requests) : ~requests[t].pending

\* C1: once the response to the most recently issued table fetch has arrived
\* and succeeded, the visible records are that response's records, whatever
\* responses to superseded fetches arrive before or after it.
C1_LatestResponseWins ==
  (Len(requests) >= 1 /\ ~requests[Len(requests)].pending
     /\ requests[Len(requests)].response.ok)
    => payments = requests[Len(requests)].response.records

\* fetch A, then fetch B, B's response arrives, then A's: B's records show
C1_Witness ==
  /\ Len(requests) = 2
  /\ arrivals = <<2, 1>>
  /\ requests[1].response.ok
  /\ requests[2].response.ok
  /\ requests[1].response.records # requests[2].response.records
  /\ payments = requests[2].response.records

\* C2: a step that applies a filter leaves the three counts and the count
\* requests as they were, and every count whose response has arrived stays
\* the value that response gave it.
C2_FiltersLeaveCounts ==
  /\ [][(filters' # filters \/ selectedState' # selectedState
           \/ applied' # applied) => UNCHANGED countVars]_vars
  /\ [](\A k \in paymentTypes :
          countReq[k] = "done" => Badge(k) = countOf(served[k]))

\* a filter is active while the badges show the fetched totals
C2_Witness ==
  /\ \A k \in paymentTypes : countReq[k] = "done"
  /\ allCount = 1 /\ incomingCount = 1 /\ outgoingCount = 1
  /\ applied # NoCall
  /\ filters.paymentState = "settled"

Failed(r) == r.kind \in {"reject", "badjson"}
Reported(r) == r.kind = "body" /\ r.total_items.t = "number"

\* C3: when the incoming count request has failed and the all and outgoing
\* requests have reported totals, the all and outgoing counts are those
\* totals and the incoming count is 0, in whatever order they finished.
C3_FailureIsolated ==
  /\ (countReq["incoming"] = "done" /\ Failed(served["incoming"]))
       => incomingCount = 0
  /\ (countReq["all"] = "done" /\ Reported(served["all"]))
       => allCount = served["all"].total_items.n
  /\ (countReq["outgoing"] = "done" /\ Reported(served["outgoing"]))
       => outgoingCount = served["outgoing"].total_items.n

C3_Witness ==
  /\ \A k \in paymentTypes : countReq[k] = "done"
  /\ served["incoming"].kind = "reject"
  /\ Reported(served["all"]) /\ allCount = 1
  /\ Reported(served["outgoing"]) /\ outgoingCount = 1
  /\ incomingCount = 0

\* everything the page keeps about one category
CategoryView(k) == [count |-> Badge(k)]

\* C4: what the page keeps about a category whose count request failed
\* differs from what it keeps about a category whose response reported a
\* total of 0.
C4_FailureDistinguishable ==
  \A j, k \in paymentTypes :
    (countReq[j] = "done" /\ Failed(served[j])
       /\ countReq[k] = "done" /\ Reported(served[k])
       /\ served[k].total_items.n = 0)
      => CategoryView(j) # CategoryView(k)

badgeKeys == paymentTypes \cup {"forwarded"}

\* C5: a step that changes the loaded records changes no category badge.
C5_BadgesNotFromRecords ==
  [][payments' # payments =>
       \A k \in badgeKeys :
         Badge(k)' = Badge(k) /\ LengthBadge(k)' = LengthBadge(k)]_vars

\* C6: after criteria without paymentState are applied, neither filters nor
\* selectedState names a settlement state.
C6_ClearedStateUnconstrained ==
  (applied # NoCall /\ applied.paymentState = Absent)
    => (filters.paymentState = Absent /\ selectedState = "all")

\* operator set: the threshold is a finite non-negative number; both dates
\* set: from is not after to
ValidFilters(c) ==
  /\ c.operator # Absent => (c.value.t = "number" /\ c.value.n >= 0)
  /\ (c.from # NoDate /\ c.to # NoDate) => c.from <= c.to

\* C7: a call of the filter handler with invalid criteria leaves filters and
\* selectedState as they were.
C7_InvalidRejected ==
  [][(applied' # applied /\ ~ValidFilters(applied'))
       => (filters' = filters /\ selectedState' = selectedState)]_vars

\* C8: after handleApplyFilters(c) the active filters are exactly c.
C8_AtomicReplace == applied # NoCall => filters = applied

\* criteria that leave out a field the previous criteria had set
C8_Witness ==
  /\ applied # NoCall
  /\ applied.paymentState = Absent
  /\ applied.operator = "gte"
  /\ selectedState = "failed"
  /\ filters = applied

\* C9: 1 <= currentPage <= max(1, totalPages) in every state.
C9_PageInRange == 1 <= currentPage /\ currentPage <= Max(1, totalPages)

\* the last of at least ten pages is shown
C9_Witness == totalPages >= 10 /\ currentPage = totalPages

\* the least n with n * pageSize >= totalItems
MathCeil(totalItems, pageSize) ==
  CHOOSE n \in 0..totalItems :
    n * pageSize >= totalItems /\ (n = 0 \/ (n - 1) * pageSize < totalItems)

C12_WindowShape ==
  totalPages >= 1 =>
    LET w == getPaginationNumbers
    IN  /\ Len(w) = Min(maxVisible, totalPages)
        /\ \A i \in 1..Len(w) : w[i] \in 1..totalPages
        /\ \A i \in 1..(Len(w) - 1) : w[i + 1] = w[i] + 1

\* the last of more than maxVisible pages is shown
C12_Witness ==
  /\ totalPages > maxVisible
  /\ currentPage = totalPages
  /\ Len(getPaginationNumbers) = maxVisible

\* C13: the window is currentPage - 2 .. currentPage + 2 when both ends are
\* pages; it starts at 1 when the current page is within 2 of page 1 and
\* ends at totalPages when the current page is within 2 of totalPages.
C13_WindowCentred ==
  totalPages >= 1 =>
    LET w == getPaginationNumbers
        half == maxVisible \div 2
    IN  /\ (currentPage - half >= 1 /\ currentPage + half <= totalPages)
             => w = [i \in 1..maxVisible |-> currentPage - half + i - 1]
        /\ currentPage - 1 <= half => w[1] = 1
        /\ totalPages - currentPage <= half => w[Len(w)] = totalPages

\* a page with two pages on each side
C13_Witness ==
  /\ currentPage = 4
  /\ totalPages >= 7
  /\ getPaginationNumbers = <<2, 3, 4, 5, 6>>

\* C15: a step that changes the current page leaves the selected event, the
\* open and closed sections and the filter criteria as they were.
C15_PageChangeKeepsSelections ==
  [][currentPage' # currentPage =>
       UNCHANGED <<selectedEvent, isNotificationSettingsOpen,
                   isCategoriesOpen, filterVars>>]_vars

\* a later page is shown with an event selected and both sections toggled
C15_Witness ==
  /\ currentPage = 3
  /\ selectedEvent = "discord"
  /\ isCategoriesOpen
  /\ ~isNotificationSettingsOpen

\* C14: a step that changes the direction tab or applies new filter criteria
\* leaves the table on page 1.
C14_TabOrFilterResetsPage ==
  [][(selectedType' # selectedType \/ applied' # applied)
       => tablePage' = 1]_vars

\* the response of details fetch t arrives in this step and is a failure
DetailsFailure(t) ==
  /\ t \in 1..Len(detailFetches)
  /\ detailFetches[t].pending
  /\ ~detailFetches'[t].pending
  /\ detailFetches[t].response # "data"

\* C16: a step in which a fetch fails leaves the page in the Error state and
\* leaves the data loaded before as it was.
C16_FailureMovesToError ==
  [][(\E t \in 1..MaxDetailFetches : DetailsFailure(t))
       => (detailsStatus' = "Error" /\ paymentData' = paymentData)]_vars

\* C17: the three count fetches started on mount all finish, each with its
\* count set to a number: the reported total, or 0 after a failure.
C17_CountsSettle ==
  <>[](\A k \in paymentTypes :
         /\ countReq[k] = "done"
         /\ Badge(k) \in Int
         /\ Badge(k) = countOf(served[k]))

\* the three fetches have finished: one rejected, one with an unparsable
\* body, one with a total
C17_Witness ==
  /\ \A k \in paymentTypes : countReq[k] = "done"
  /\ served["incoming"].kind = "reject"
  /\ served["all"].kind = "badjson"
  /\ served["outgoing"].kind = "body" /\ outgoingCount = 1
  /\ incomingCount = 0 /\ allCount = 0

QueryNames(q) == {p[1] : p \in q}

\* C18: the count request for 'all' has no payment_types parameter, the
\* incoming and outgoing requests carry payment_types with their own
\* category, every count request carries per_page=1 and page=1, and none
\* carries any other parameter.
C18_CountQueries ==
  \A i \in 1..Len(issued) :
    LET q == issued[i].query
        k == issued[i].key
    IN  /\ QueryNames(q) \subseteq {"payment_types", "per_page", "page"}
        /\ <<"per_page", "1">> \in q
        /\ <<"page", "1">> \in q
        /\ IF k = "all"
             THEN "payment_types" \notin QueryNames(q)
             ELSE {p \in q : p[1] = "payment_types"}
                    = {<<"payment_types", k>>}

\* the three requests have been sent while a filter is active
C18_Witness ==
  /\ Len(issued) = 3
  /\ {issued[i].key : i \in 1..3} = paymentTypes
  /\ filters.paymentState = "failed"

\* C19: the step in which one category's response arrives changes no other
\* category's count, and once all three have arrived the three counts are
\* the values of the three responses, whatever order they arrived in.
C19_CountsIndependent ==
  /\ [][\A k \in paymentTypes :
          (countReq[k] = "pending" /\ countReq'[k] = "done")
            => \A j \in paymentTypes \ {k} : Badge(j)' = Badge(j)]_vars
  /\ []((\A k \in paymentTypes : countReq[k] = "done")
          => <<allCount, incomingCount, outgoingCount>>
               = <<countOf(served["all"]), countOf(served["incoming"]),
                   countOf(served["outgoing"])>>)

\* three different outcomes have arrived
C19_Witness ==
  /\ \A k \in paymentTypes : countReq[k] = "done"
  /\ served["all"].kind = "body" /\ allCount = 1
  /\ served["incoming"].kind = "body" /\ incomingCount = -1
  /\ served["outgoing"].kind = "reject" /\ outgoingCount = 0

\* C20: after mount exactly one request per category has been sent, however
\* many filters are applied and tabs clicked, and a count changes only in
\* the step in which its one response arrives.
C20_CountsOncePerMount ==
  /\ [](IF \A k \in paymentTypes : countReq[k] = "idle"
          THEN issued = <<>>
          ELSE /\ Len(issued) = 3
               /\ \A k \in paymentTypes :
                    Cardinality({i \in 1..3 : issued[i].key = k}) = 1)
  /\ [][\A k \in paymentTypes :
          /\ Badge(k)' # Badge(k)
               => (countReq[k] = "pending" /\ countReq'[k] = "done")
          /\ countReq[k] = "done" => countReq'[k] = "done"]_vars

\* the counts are in and filters have been applied since
C20_Witness ==
  /\ \A k \in paymentTypes : countReq[k] = "done"
  /\ Len(issued) = 3
  /\ applied # NoCall
  /\ filters.paymentState = "pending"
  /\ allCount = 1

\* C21: a count whose response carries no total_items is the length of the
\* response's items list, and 0 when the response carries no items list
\* either.
C21_FallbackToLength ==
  \A k \in paymentTypes :
    (countReq[k] = "done" /\ served[k].kind = "body"
       /\ served[k].total_items = Undefined)
      => Badge(k) = IF served[k].items = Undefined
                      THEN 0
                      ELSE served[k].items.n

\* one response with a list and no total, one with neither
C21_Witness ==
  /\ countReq["incoming"] = "done" /\ countReq["outgoing"] = "done"
  /\ served["incoming"] =
       [kind |-> "body", total_items |-> Undefined, items |-> Num(1)]
  /\ incomingCount = 1
  /\ served["outgoing"] =
       [kind |-> "body", total_items |-> Undefined, items |-> Undefined]
  /\ outgoingCount = 0

\* C22: each of allCount, incomingCount and outgoingCount is a non-negative
\* integer in every state, whatever body the server returns.
C22_CountsNonNegative ==
  \A k \in paymentTypes : Badge(k) \in Nat

\* C25: a count whose response carries a total_items is decided by that
\* total and not by the items list: a total of 0 with a non-empty list gives
\* the count 0.
C25_ExplicitTotalWins ==
  \A k \in paymentTypes :
    (countReq[k] = "done" /\ served[k].kind = "body"
       /\ served[k].total_items # Undefined)
      => Badge(k) = NumberOrZero(served[k].total_items)

\* a total of 0 came with a list of one record
C25_Witness ==
  /\ countReq["all"] = "done"
  /\ served["all"] =
       [kind |-> "body", total_items |-> Num(0), items |-> Num(1)]
  /\ allCount = 0

\* C26: whenever the active filters name a settlement state, selectedState
\* is that state, so the table's selectedState and filters props agree.
C26_SelectorsAgree ==
  filters.paymentState # Absent => selectedState = filters.paymentState

\* criteria naming a state have been applied and both props carry it
C26_Witness ==
  /\ applied # NoCall
  /\ applied.paymentState = "pending"
  /\ applied.operator = "lte"
  /\ filters.paymentState = "pending"
  /\ selectedState = "pending"

\* C23: with one item per page and three items there are three pages and
\* page 1 shows one row; the rows of page p are the items at positions
\* (p-1)*pageSize+1 .. min(p*pageSize, totalItems), in order; every page of
\* a non-empty list shows between 1 and pageSize rows.
C23_RecordWindow ==
  LET p == currentPage
      lo == (p - 1) * itemsPerPage + 1
      hi == Min(p * itemsPerPage, endpointsData)
  IN  /\ (itemsPerPage = 1 /\ endpointsData = 3)
           => (totalPages = 3 /\ (p = 1 => Len(currentData) = 1))
      /\ Len(currentData) = Max(0, hi - lo + 1)
      /\ \A i \in 1..Len(currentData) :
           currentData[i] = endpointIds[lo + i - 1]
      /\ (endpointsData >= 1 /\ p \in 1..totalPages)
           => Len(currentData) \in 1..itemsPerPage

\* the last page holds fewer rows than a full page
C23_Witness ==
  /\ endpointsData = 3
  /\ itemsPerPage = 2
  /\ currentPage = 2
  /\ totalPages = 2
  /\ currentData = <<3>>

\* C27: for totalPages >= 1 and a current page in 1..totalPages, the current
\* page is one of the page numbers shown.
C27_WindowHoldsCurrent ==
  (totalPages >= 1 /\ currentPage \in 1..totalPages)
    => \E i \in 1..Len(getPaginationNumbers) :
         getPaginationNumbers[i] = currentPage

\* a page beyond the first maxVisible pages is highlighted
C27_Witness ==
  /\ currentPage = 8
  /\ totalPages >= 9
  /\ getPaginationNumbers[3] = currentPage

\* C24: the selected direction tab is always one of all, incoming and
\* outgoing, and a step that changes it starts a new fetch of the table and
\* leaves the state Loading.
C24_DirectionChangeFetches ==
  /\ [](selectedType \in paymentTypes)
  /\ [][selectedType' # selectedType
         => (Len(requests') = Len(requests) + 1 /\ status' = "Loading")]_vars

AllDetailsArrived ==
  \A t \in 1..Len(detailFetches) : ~detailFetches[t].pending

\* C28: once every details fetch has resolved and the fetch for the latest
\* id brought a payment, the payment shown is the one of the latest id, in
\* whatever order the responses arrived.
C28_LatestIdShown ==
  (detailFetches # <<>> /\ AllDetailsArrived
     /\ detailFetches[Len(detailFetches)].response = "data")
    => paymentData = [loaded |-> TRUE, payment |-> id]

\* C29: a step in which a details fetch fails (rejected request, body that
\* is not JSON, body without data) leaves paymentData as it was, and no
\* exception leaves fetchPaymentData.
C29_FailedLoadKeepsData ==
  /\ [][\A t \in 1..MaxDetailFetches :
          DetailsFailure(t) => paymentData' = paymentData]_vars
  /\ [](\A t \in 1..Len(detailFetches) : ~detailFetches[t].threw)

\* a payment is shown and the loads the next two id changes started have
\* failed, one with no data member and one rejected
C29_Witness ==
  /\ Len(detailFetches) = 3
  /\ AllDetailsArrived
  /\ detailFetches[1].response = "data"
  /\ detailFetches[2].response = "nodata"
  /\ detailFetches[3].response = "reject"
  /\ paymentData = [loaded |-> TRUE, payment |-> detailFetches[1].id]
====
